---- MODULE Spec2Model ----
(***************************************************************************)
(* Model of lib/interfaces/RawData.js: the sliding window of latest        *)
(* observations (onData/init), the fragment writer (storeData), the        *)
(* GET /latest and GET /fragments handlers and createMetadata.             *)
(*                                                                         *)
(* Every `await` of the source is a point where other handlers may run, so *)
(* each async function is split at its awaits; the code between two awaits *)
(* runs to completion and is one action.  lib/Utils is not part of the     *)
(* sources at hand; its functions are modelled from their described        *)
(* contract (directory listing sorted ascending, binary search, append).   *)
(***************************************************************************)
EXTENDS Integers, Sequences, FiniteSets, TLC

\* ------------------------------------------------------------------ bounds
MaxIngest == 2        \* records submitted to onData in one behaviour

\* --------------------------------------------------------- input domains
\* generatedAtTime values of the records
Times == {9, 10, 11}
\* the payloads a producer submits: data string with its generatedAtTime and
\* its byte length
Payloads == {[gat |-> 9, len |-> 1], [gat |-> 10, len |-> 2], [gat |-> 11, len |-> 1]}
\* config.latestWindowsize and config.maxFileSize
WindowSizes == {0, 1, 2}
FileSizes == {1}
\* the times clients ask for: before, at, between and after the fragments
QueryTimes == Times
\* new Date() at the time of a request: after every generatedAtTime
Now == 11 + 1

\* ------------------------------------------------------- values and dates
\* getTime() of an Invalid Date (NaN)
InvalidDate == 0 - 1
\* a missing or empty string
NoString == <<>>

\* Date.prototype.toISOString: fixed-width, zero-padded decimal fields
ToISO(t) == <<t \div 10, t % 10>>
ISOStrings == {ToISO(t) : t \in QueryTimes}
\* new Date(string).getTime()
DateParse(s) == IF Len(s) = 2 THEN s[1] * 10 + s[2] ELSE InvalidDate

\* string comparison of two names, character by character
LexLess(a, b) ==
    \E i \in 1..Len(a) : /\ i <= Len(b)
                         /\ a[i] < b[i]
                         /\ \A j \in 1..(i - 1) : a[j] = b[j]

\* a record as submitted to onData: id tells the submissions apart, the
\* payload string is determined by gat and len
\* data.toString()
Data(rec) == [gat |-> rec.gat, len |-> rec.len]
\* Buffer.from(_data.toString()).byteLength
ByteLength(d) == d.len
\* Utils.formatTriples('application/trig', triples)
FormatTrig(rec) == [trig |-> Data(rec)]
\* md5(data)
Md5(d) == [md5 |-> d]
\* Date.prototype.toUTCString()
ToUTCString(t) == [utc |-> t]

\* fragmentsPath + '/' + gat.toISOString() + '.trig'
FragmentPath(gat) == [stem |-> ToISO(gat), ext |-> ".trig"]
FileNames == {FragmentPath(t) : t \in Times}
\* f.substring(0, f.indexOf('.trig'))
Stem(f) == f.stem

VARIABLES
    latestWindowsize,   \* config.latestWindowsize
    fragmentMaxSize,    \* config.maxFileSize
    latest,             \* this._latest
    latestTrig,         \* this._latestTrig
    byteCounter,        \* this._byteCounter
    lastFragment,       \* this.lastFragment
    prevEtag,           \* this._prevEtag
    prevResponseBody,   \* this._prevResponseBody
    inits,              \* init() calls suspended at their awaits, in call order
    appends,            \* storeData() calls suspended at await appendToFile
    disk,               \* content of every file of fragmentsPath
    latestReq,          \* GET /latest handler suspended at await createMetadata
    latestResp,         \* last response of GET /latest
    prevLatestResp,     \* the response of GET /latest before that
    fragReq,            \* GET /fragments handler suspended at its awaits
    fragResp,           \* last response of GET /fragments
    submitted,          \* history: number of records handed to onData
    ingested,           \* history: records in the order init pushed them
    stored,             \* history: the calls of storeData, in order
    faults              \* which records are malformed; history of failed calls

vars == <<latestWindowsize, fragmentMaxSize, latest, latestTrig, byteCounter,
          lastFragment, prevEtag, prevResponseBody, inits, appends, disk,
          latestReq, latestResp, prevLatestResp, fragReq, fragResp,
          submitted, ingested, stored, faults>>

config == <<latestWindowsize, fragmentMaxSize>>
window == <<latest, latestTrig>>
writer == <<byteCounter, lastFragment, appends, stored>>
liveCache == <<prevEtag, prevResponseBody>>
liveHttp == <<latestReq, latestResp, prevLatestResp>>
fragHttp == <<fragReq, fragResp>>

\* ------------------------------------------------------------- sequences
RemoveAt(s, i) == [j \in 1..(Len(s) - 1) |-> IF j < i THEN s[j] ELSE s[j + 1]]
ReplaceAt(s, i, x) == [s EXCEPT ![i] = x]

\* ================================================================== init()
\* line 75: this._latest.length > this._latestWindowsize
WindowFull_off(w) == Len(w) > latestWindowsize + 1
WindowFull(w) == Len(w) > latestWindowsize

\* line 76: const o = this._latest.pop()
Popped_off(w) == w[1]
Popped(w) == w[Len(w)]
AfterPop(w) == SubSeq(w, 1, Len(w) - 1)

\* lines 80-84: newLatestTrig += '\n' + this._latest[i].triplesTrig
LatestTrig_off(w) == [i \in 1..(Len(w) - 1) |-> w[i + 1].triplesTrig]
LatestTrig(w) == [i \in 1..Len(w) |-> w[i].triplesTrig]

\* lines 62-67: the entry pushed on the window
Entry(rec) == [data |-> Data(rec), triplesTrig |-> FormatTrig(rec),
               gat |-> rec.gat, id |-> rec.id]

\* ============================================================= storeData()
\* line 171: this.byteCounter === 0 || this.byteCounter > this.fragmentMaxSize
NeedsNewFragment(bc) == bc = 0 \/ bc > fragmentMaxSize

\* lines 171-177, up to the await: the fragment the payload is appended to
TargetFragment(o) == IF NeedsNewFragment(byteCounter) THEN FragmentPath(o.gat)
                     ELSE lastFragment
CounterAtAppend == IF NeedsNewFragment(byteCounter) THEN 0 ELSE byteCounter

\* ============================================================== lib/Utils
\* the files of fragmentsPath that exist
Exists(d) == {f \in FileNames : d[f] # <<>>}

\* Utils.getAllFragments: the directory listing, ascending by file name
RECURSIVE SortedNames(_)
SortedNames(S) ==
    IF S = {} THEN <<>>
    ELSE LET first == CHOOSE f \in S : \A g \in S \ {f} : LexLess(Stem(f), Stem(g))
         IN <<first>> \o SortedNames(S \ {first})

AllNamesSorted == SortedNames(FileNames)

GetAllFragments(d) == SelectSeq(AllNamesSorted, LAMBDA f : d[f] # <<>>)

\* Utils.getFragmentsCount
GetFragmentsCount(d) == Cardinality(Exists(d))

\* Utils.dateBinarySearch(target, fragments): bisection over the ascending
\* times; lo and hi are zero-based, times[lo] <= target < times[hi]
RECURSIVE Bisect(_, _, _, _)
Bisect(target, times, lo, hi) ==
    IF hi - lo <= 1 THEN lo
    ELSE LET mid == (lo + hi) \div 2
         IN IF times[mid + 1] <= target
            THEN Bisect(target, times, mid, hi)
            ELSE Bisect(target, times, lo, mid)

DateBinarySearch(target, times) ==
    IF target < times[1] THEN <<times[1], 0>>
    ELSE LET i == Bisect(target, times, 0, Len(times))
         IN <<times[i + 1], i>>

\* ========================================================= createMetadata()
\* line 259: serverUrl + name + '/fragments?time=' + previous
FragmentLink(stem) == [path |-> "/fragments", time |-> stem]

\* lines 251-262: the hydra:previous quads of the metadata; index is
\* zero-based, fragments is the listing at the time of the call
PreviousLinks_off(index, fragments) ==
    IF index > 1 THEN {FragmentLink(Stem(fragments[index]))} ELSE {}
PreviousLinks(index, fragments) ==
    IF index > 0 THEN {FragmentLink(Stem(fragments[index]))} ELSE {}

\* lines 182-265
CreateMetadata(subject, index, d) ==
    [subject |-> subject, previous |-> PreviousLinks(index, GetAllFragments(d))]

\* ============================================================= GET /latest
StaticTriples == "staticTriples"

\* line 98: 'W/"' + md5(self._latest[self._latest.length-1].data) + '"'
Etag(w) == [weak |-> TRUE, tag |-> Md5(w[Len(w)].data)]
\* line 100: self._latest[self._latest.length-1].gat.toUTCString()
LastModified(w) == ToUTCString(w[Len(w)].gat)

\* an absent header, and the initial '' of this._prevEtag
NoEtag == [weak |-> FALSE, tag |-> Md5([gat |-> 0, len |-> 0])]
NoDate == ToUTCString(InvalidDate)
NoMetadata == [subject |-> NoString, previous |-> {}]

\* line 119: this._staticTriples.concat('\n' + this._latestTrig, '\n' + metadata)
ResponseBody(trig, metadata) ==
    [static |-> StaticTriples, content |-> trig, metadata |-> metadata]

\* a response without a TriG body
TextBody(text) == [static |-> text, content |-> <<>>, metadata |-> NoMetadata]
NoBody == TextBody("")

LatestResponse(status, etag, lm, body, inm, atStart) ==
    [status |-> status, etag |-> etag, lastModified |-> lm, body |-> body,
     ifNoneMatch |-> inm, pushesAtStart |-> atStart, pushesAtEnd |-> Len(ingested),
     windowAtEnd |-> latest]

\* =========================================================== GET /fragments
\* line 138: the listing mapped to the time each file name encodes
FragmentTimes_off(fs) == [i \in 1..Len(fs) |-> DateParse(Stem(fs[i]) \o <<fs[i].ext>>)]
FragmentTimes(fs) == [i \in 1..Len(fs) |-> DateParse(Stem(fs[i]))]

\* line 141: queryTime.getTime() !== fragment.getTime()
NotCanonical_off(queryTime, fragment) == TRUE
NotCanonical(queryTime, fragment) == queryTime # fragment

\* lines 160-166
CacheControl_off(index, fc) ==
    IF index < fc THEN "public, max-age=31536000, inmutable"
    ELSE "no-cache, no-store, must-revalidate"
CacheControl(index, fc) ==
    IF index < fc - 1 THEN "public, max-age=31536000, inmutable"
    ELSE "no-cache, no-store, must-revalidate"

FragmentsResponse(status, query, via, location, req, body, cache, names) ==
    [status |-> status, query |-> query, via |-> via, location |-> location,
     fragment |-> req.fragment, index |-> req.index, fc |-> req.fc,
     namesAtLocate |-> req.names, body |-> body, cacheControl |-> cache,
     namesAtMetadata |-> names]

NoLocate == [fragment |-> InvalidDate, index |-> 0 - 1, fc |-> 0 - 1, names |-> {}]

\* ================================================================ actions
NoFragment == [stem |-> NoString, ext |-> ""]
NoLatestResp == [status |-> 0, etag |-> NoEtag, lastModified |-> NoDate,
                 body |-> NoBody, ifNoneMatch |-> NoEtag,
                 pushesAtStart |-> 0, pushesAtEnd |-> 0, windowAtEnd |-> <<>>]
NoFragResp == [status |-> 0, query |-> NoString, via |-> "", location |-> NoString,
               fragment |-> InvalidDate, index |-> 0 - 1, fc |-> 0 - 1,
               namesAtLocate |-> {}, body |-> NoBody, cacheControl |-> "",
               namesAtMetadata |-> {}]
Idle == [pending |-> FALSE]
NoFaults == [malformed |-> {}, append |-> {}, push |-> {}]

Init ==
    /\ latestWindowsize \in WindowSizes
    /\ fragmentMaxSize \in FileSizes
    /\ latest = <<>>
    /\ latestTrig = <<>>
    /\ byteCounter = 0
    /\ lastFragment = NoFragment
    /\ prevEtag = NoEtag
    /\ prevResponseBody = NoBody
    /\ inits = <<>>
    /\ appends = <<>>
    /\ disk = [f \in FileNames |-> <<>>]
    /\ latestReq = Idle
    /\ latestResp = NoLatestResp
    /\ prevLatestResp = NoLatestResp
    /\ fragReq = Idle
    /\ fragResp = NoFragResp
    /\ submitted = 0
    /\ ingested = <<>>
    /\ stored = <<>>
    /\ faults = NoFaults

\* lines 46-55, onData with a single observation: init(data) runs up to its
\* first await
OnData(d) ==
    /\ submitted < MaxIngest
    /\ inits' = Append(inits, [id |-> submitted + 1, gat |-> d.gat, len |-> d.len])
    /\ submitted' = submitted + 1
    /\ UNCHANGED <<config, faults, window, writer, liveCache, disk, liveHttp, fragHttp,
                   ingested>>

\* lines 46-55, onData with a single observation, in a stream that is one
\* record longer
OnDataLong(d) ==
    /\ submitted < MaxIngest + 1
    /\ inits' = Append(inits, [id |-> submitted + 1, gat |-> d.gat, len |-> d.len])
    /\ submitted' = submitted + 1
    /\ UNCHANGED <<config, faults, window, writer, liveCache, disk, liveHttp,
                   fragHttp, ingested>>

\* lines 48-51, onData with an array of two observations: forEach starts
\* init for each of them without waiting
OnDataArray(d1, d2) ==
    /\ submitted + 1 < MaxIngest
    /\ inits' = inits \o <<[id |-> submitted + 1, gat |-> d1.gat, len |-> d1.len],
                            [id |-> submitted + 2, gat |-> d2.gat, len |-> d2.len]>>
    /\ submitted' = submitted + 2
    /\ UNCHANGED <<config, faults, window, writer, liveCache, disk, liveHttp, fragHttp,
                   ingested>>

\* lines 62-85: init resumes after its awaits and runs to its end; the call
\* of storeData (lines 170-177) runs inside it up to await appendToFile.
\* Suspended calls resume in any order: how long the awaited Utils calls of
\* lines 58-60 take is not fixed by this file.  The push to the websocket
\* clients (lines 70-72) changes no state of this class.
InitSteps(i) ==
    /\ i \in 1..Len(inits)
    /\ inits[i].id \notin faults.malformed
    /\ LET rec == inits[i]
           pushed == Append(latest, Entry(rec))
       IN /\ inits' = RemoveAt(inits, i)
          /\ ingested' = Append(ingested, rec)
          /\ IF WindowFull(pushed)
             THEN LET o == Popped(pushed)
                  IN /\ latest' = AfterPop(pushed)
                     /\ lastFragment' = TargetFragment(o)
                     /\ byteCounter' = CounterAtAppend
                     /\ appends' = Append(appends, [file |-> TargetFragment(o),
                                                    data |-> o.data,
                                                    id |-> o.id,
                                                    written |-> FALSE])
                     /\ stored' = Append(stored, [id |-> o.id, gat |-> o.gat,
                                                  data |-> o.data,
                                                  file |-> TargetFragment(o),
                                                  rotated |-> NeedsNewFragment(byteCounter)])
             ELSE /\ latest' = pushed
                  /\ UNCHANGED writer
          /\ latestTrig' = LatestTrig(latest')
    /\ UNCHANGED <<config, liveCache, disk, liveHttp, fragHttp, submitted>>

\* lines 62-85 with no websocket configured, or with a push that succeeds
InitResume(i) ==
    /\ InitSteps(i)
    /\ UNCHANGED faults

\* lines 62-85 with a websocket configured and a pushData (line 71) that
\* fails without throwing into init: its result is not looked at
InitPushFails(i) ==
    /\ InitSteps(i)
    /\ faults' = [faults EXCEPT !.push = @ \cup {inits[i].id}]

\* lines 62-71 with a websocket configured and a pushData (line 71) that
\* throws: the call is not inside a try, so init ends at line 71, after the
\* push of line 62 and before the eviction and the rebuilding of _latestTrig
InitPushThrows(i) ==
    /\ i \in 1..Len(inits)
    /\ inits[i].id \notin faults.malformed
    /\ inits' = RemoveAt(inits, i)
    /\ ingested' = Append(ingested, inits[i])
    /\ latest' = Append(latest, Entry(inits[i]))
    /\ faults' = [faults EXCEPT !.push = @ \cup {inits[i].id}]
    /\ UNCHANGED <<config, latestTrig, writer, liveCache, disk, liveHttp,
                   fragHttp, submitted>>

\* lines 46-55, onData with an observation from which no generatedAtTime
\* can be extracted, or which cannot be formatted
OnDataMalformed(d) ==
    /\ submitted < MaxIngest
    /\ inits' = Append(inits, [id |-> submitted + 1, gat |-> d.gat, len |-> d.len])
    /\ submitted' = submitted + 1
    /\ faults' = [faults EXCEPT !.malformed = @ \cup {submitted + 1}]
    /\ UNCHANGED <<config, window, writer, liveCache, disk, liveHttp, fragHttp,
                   ingested>>

\* lines 58-62: the window when one of the awaited Utils calls rejects; the
\* push of line 62 comes after all three awaits
WindowAtReject_off(w, rec) == Append(w, Entry(rec))
WindowAtReject(w, rec) == w

\* lines 58-60: an awaited Utils call rejects and init ends there; onData
\* does not look at the promise
InitRejects(i) ==
    /\ i \in 1..Len(inits)
    /\ inits[i].id \in faults.malformed
    /\ inits' = RemoveAt(inits, i)
    /\ latest' = WindowAtReject(latest, inits[i])
    /\ UNCHANGED <<config, faults, latestTrig, writer, liveCache, disk, liveHttp,
                   fragHttp, submitted, ingested>>

\* line 177, Utils.appendToFile: the payload reaches the file
AppendToFile(i) ==
    /\ i \in 1..Len(appends)
    /\ ~appends[i].written
    /\ disk' = [disk EXCEPT ![appends[i].file] = Append(@, appends[i].data)]
    /\ appends' = ReplaceAt(appends, i, [appends[i] EXCEPT !.written = TRUE])
    /\ UNCHANGED <<config, faults, window, byteCounter, lastFragment, stored,
                   liveCache, inits, liveHttp, fragHttp, submitted, ingested>>

\* lines 177-179: the byte counter when await appendToFile rejects; the
\* increment of line 179 comes after the await
CounterAtFailure_off(bc, data) == bc + ByteLength(data)
CounterAtFailure(bc, data) == bc

\* line 177: Utils.appendToFile rejects without having written and storeData
\* ends there; init does not look at the promise (line 77)
AppendFails(i) ==
    /\ i \in 1..Len(appends)
    /\ ~appends[i].written
    /\ byteCounter' = CounterAtFailure(byteCounter, appends[i].data)
    /\ appends' = RemoveAt(appends, i)
    /\ faults' = [faults EXCEPT !.append = @ \cup {appends[i].id}]
    /\ UNCHANGED <<config, window, lastFragment, stored, liveCache,
                   inits, disk, liveHttp, fragHttp, submitted, ingested>>

\* lines 178-179: storeData resumes after the append
StoreDataResume(i) ==
    /\ i \in 1..Len(appends)
    /\ appends[i].written
    /\ byteCounter' = byteCounter + ByteLength(appends[i].data)
    /\ appends' = RemoveAt(appends, i)
    /\ UNCHANGED <<config, faults, window, lastFragment, stored, liveCache,
                   inits, disk, liveHttp, fragHttp, submitted, ingested>>

\* lines 91-118: GET /latest up to await createMetadata.  The ReferenceError
\* of line 105 (prevResponse is not defined) rejects the handler: status 500
GetLatest(inm) ==
    /\ ~latestReq.pending
    /\ IF Len(latest) = 0
       THEN /\ latestResp' = LatestResponse(404, NoEtag, NoDate, TextBody("No data found"), inm,
                                            Len(ingested))
            /\ prevLatestResp' = latestResp
            /\ UNCHANGED latestReq
       ELSE IF inm # NoEtag /\ inm = Etag(latest)
       THEN /\ latestResp' = LatestResponse(304, NoEtag, NoDate, NoBody, inm,
                                            Len(ingested))
            /\ prevLatestResp' = latestResp
            /\ UNCHANGED latestReq
       ELSE IF Etag(latest) = prevEtag
       THEN /\ latestResp' = LatestResponse(500, NoEtag, NoDate, NoBody, inm,
                                            Len(ingested))
            /\ prevLatestResp' = latestResp
            /\ UNCHANGED latestReq
       ELSE /\ latestReq' = [pending |-> TRUE,
                             etag |-> Etag(latest),
                             lastModified |-> LastModified(latest),
                             metadata |-> CreateMetadata("/fragments/latest",
                                              Len(GetAllFragments(disk)), disk),
                             ifNoneMatch |-> inm,
                             pushesAtStart |-> Len(ingested)]
            /\ UNCHANGED <<latestResp, prevLatestResp>>
    /\ UNCHANGED <<config, faults, window, writer, liveCache, inits, disk, fragHttp,
                   submitted, ingested>>

\* lines 119-121: GET /latest resumes after createMetadata
GetLatestResume ==
    /\ latestReq.pending
    /\ prevResponseBody' = ResponseBody(latestTrig, latestReq.metadata)
    /\ prevEtag' = latestReq.etag
    /\ latestResp' = LatestResponse(200, latestReq.etag, latestReq.lastModified,
                                    prevResponseBody', latestReq.ifNoneMatch,
                                    latestReq.pushesAtStart)
    /\ prevLatestResp' = latestResp
    /\ latestReq' = Idle
    /\ UNCHANGED <<config, faults, window, writer, inits, disk, fragHttp, submitted,
                   ingested>>

\* lines 127-148: GET /fragments?time=query up to its first await.  An empty
\* listing leaves no fragment to dereference: the handler fails, status 500.
\* via tells how the client came to ask: "direct", or by following the
\* redirect to "now" or to a "canonical" time; it is kept with a response
\* that ends the handler here
FragmentsHandler(query, via) ==
    LET queryTime == DateParse(query)
        listing == GetAllFragments(disk)
        fragments == FragmentTimes(listing)
    IN IF queryTime = InvalidDate
       THEN /\ fragResp' = FragmentsResponse(302, query, via, ToISO(Now), NoLocate,
                                             NoBody, "", {})
            /\ UNCHANGED fragReq
       ELSE IF Len(fragments) = 0
       THEN /\ fragResp' = FragmentsResponse(500, query, via, NoString, NoLocate,
                                             NoBody, "", {})
            /\ UNCHANGED fragReq
       ELSE LET found == DateBinarySearch(queryTime, fragments)
                req == [fragment |-> found[1], index |-> found[2],
                        fc |-> GetFragmentsCount(disk), names |-> Exists(disk)]
            IN IF NotCanonical(queryTime, found[1])
               THEN /\ fragResp' = FragmentsResponse(302, query, via, ToISO(found[1]),
                                                     req, NoBody, "", {})
                    /\ UNCHANGED fragReq
               ELSE /\ fragReq' = [pending |-> TRUE, query |-> query, req |-> req]
                    /\ UNCHANGED fragResp

GetFragments(query) ==
    /\ ~fragReq.pending
    /\ FragmentsHandler(query, "direct")
    /\ UNCHANGED <<config, faults, window, writer, liveCache, inits, disk, liveHttp,
                   submitted, ingested>>

\* the client follows the redirect of the last response
FollowRedirect ==
    /\ ~fragReq.pending
    /\ fragResp.status = 302
    /\ FragmentsHandler(fragResp.location,
                        IF fragResp.fragment = InvalidDate THEN "now" ELSE "canonical")
    /\ UNCHANGED <<config, faults, window, writer, liveCache, inits, disk, liveHttp,
                   submitted, ingested>>

\* lines 150-166: GET /fragments resumes: reads the file, creates the metadata
\* for the index found before the awaits and sets Cache-Control
GetFragmentsResume ==
    /\ fragReq.pending
    /\ LET req == fragReq.req
           file == FragmentPath(req.fragment)
           metaData == CreateMetadata(ToISO(req.fragment), req.index, disk)
       IN fragResp' = FragmentsResponse(200, fragReq.query, "", NoString, req,
                                       ResponseBody(disk[file], metaData),
                                       CacheControl(req.index, req.fc), Exists(disk))
    /\ fragReq' = Idle
    /\ UNCHANGED <<config, faults, window, writer, liveCache, inits, disk, liveHttp,
                   submitted, ingested>>

\* the ingestion path: onData, init, storeData
Ingest ==
    \/ \E d \in Payloads : OnData(d)
    \/ \E d1, d2 \in Payloads : OnDataArray(d1, d2)
    \/ \E i \in 1..Len(inits) : InitResume(i)
    \/ \E i \in 1..Len(appends) : AppendToFile(i)
    \/ \E i \in 1..Len(appends) : StoreDataResume(i)

\* ingestion alone
Next == Ingest

\* ingestion alone, of a stream that is one record longer
NextLong ==
    \/ \E d \in Payloads : OnDataLong(d)
    \/ \E i \in 1..Len(inits) : InitResume(i)
    \/ \E i \in 1..Len(appends) : AppendToFile(i)
    \/ \E i \in 1..Len(appends) : StoreDataResume(i)

SpecLong == Init /\ [][NextLong]_vars

\* ingestion of arrays only: the records 2k-1 and 2k are those of the k-th
\* call of onData
NextBatch ==
    \/ \E d1, d2 \in Payloads : OnDataArray(d1, d2)
    \/ \E i \in 1..Len(inits) : InitResume(i)
    \/ \E i \in 1..Len(appends) : AppendToFile(i)
    \/ \E i \in 1..Len(appends) : StoreDataResume(i)

SpecBatch == Init /\ [][NextBatch]_vars

\* ingestion with malformed observations and a failing disk
NextFaults ==
    \/ Ingest
    \/ \E d \in Payloads : OnDataMalformed(d)
    \/ \E i \in 1..Len(inits) : InitRejects(i)
    \/ \E i \in 1..Len(appends) : AppendFails(i)

SpecFaults == Init /\ [][NextFaults]_vars

\* ingestion with websocket clients and a push that can fail
NextPush ==
    \/ Ingest
    \/ \E i \in 1..Len(inits) : InitPushFails(i)
    \/ \E i \in 1..Len(inits) : InitPushThrows(i)

SpecPush == Init /\ [][NextPush]_vars

Spec == Init /\ [][Next]_vars

\* ingestion with clients of GET /latest
NextLive ==
    \/ Ingest
    \/ \E inm \in {NoEtag, latestResp.etag} : GetLatest(inm)
    \/ GetLatestResume

SpecLive == Init /\ [][NextLive]_vars

\* ingestion with clients of GET /fragments
NextHistory ==
    \/ Ingest
    \/ \E query \in ISOStrings \cup {NoString} : GetFragments(query)
    \/ FollowRedirect
    \/ GetFragmentsResume

SpecHistory == Init /\ [][NextHistory]_vars

TypeOK ==
    /\ latestWindowsize \in WindowSizes
    /\ fragmentMaxSize \in FileSizes
    /\ byteCounter \in Nat
    /\ submitted \in 0..(MaxIngest + 1)
    /\ Len(ingested) + Len(inits) <= submitted
    /\ faults.malformed \subseteq 1..submitted

\* ================================================================= claims
Min(a, b) == IF a < b THEN a ELSE b
Ids(s) == [i \in 1..Len(s) |-> s[i].id]

C2_FifoEviction ==
    LET n == Len(ingested)
        k == Min(n, latestWindowsize)
    IN Ids(latest) = [i \in 1..k |-> ingested[n - k + i].id]

\* C3 as claimed: a 200 of GET /latest carries the ETag of the payload of the
\* most recently ingested record and that record's time as Last-Modified.
C3_ValidatorOfNewest ==
    latestResp.status = 200 =>
        LET newest == ingested[latestResp.pushesAtStart]
        IN /\ latestResp.etag = [weak |-> TRUE, tag |-> Md5(Data(newest))]
           /\ latestResp.lastModified = ToUTCString(newest.gat)

\* bytes handed to the fragment that is open after the k-th call of storeData
RECURSIVE OpenBytes(_)
OpenBytes(k) ==
    IF k = 0 THEN 0
    ELSE IF stored[k].rotated THEN ByteLength(stored[k].data)
    ELSE OpenBytes(k - 1) + ByteLength(stored[k].data)

\* C4 as claimed: a call of storeData starts a new fragment (its payload goes
\* to another fragment than the payload before it) iff no fragment is open or
\* the bytes accumulated in the open fragment exceed the cap; otherwise it
\* appends to the open fragment.
C4_RotationTrigger ==
    \A k \in 2..Len(stored) :
        stored[k].file # stored[k - 1].file <=> OpenBytes(k - 1) > fragmentMaxSize

\* C5 as claimed: the names of the fragments are strictly increasing in the
\* order storeData created them (a later call never creates a fragment whose
\* name sorts before an existing one) and every fragment is named by the time
\* of its first record.
C5_FragmentMonotonicity ==
    /\ \A i, j \in 1..Len(stored) :
           (i < j /\ stored[i].file # stored[j].file
                  /\ \A h \in 1..(j - 1) : stored[h].file # stored[j].file)
               => LexLess(Stem(stored[i].file), Stem(stored[j].file))
    /\ \A f \in Exists(disk) : f = FragmentPath(disk[f][1].gat)

\* the boundary times of a set of fragment files
Boundaries(names) == {t \in Times : FragmentPath(t) \in names}

\* what locate has to return for query time q over the boundaries B
Located(q, B, fragment, index) ==
    /\ fragment \in B
    /\ index = Cardinality({b \in B : b < fragment})
    /\ IF \E b \in B : b <= q
       THEN fragment <= q /\ \A b \in B : b <= q => b <= fragment
       ELSE \A b \in B : fragment <= b

\* C6: whenever GET /fragments has located a fragment for a valid query time
\* over a non-empty listing, it is the largest boundary <= the query time
\* with its zero-based index, or the first boundary (index 0) when the query
\* time is before every boundary.
C6_LocateCorrect ==
    /\ fragReq.pending =>
           Located(DateParse(fragReq.query), Boundaries(fragReq.req.names),
                   fragReq.req.fragment, fragReq.req.index)
    /\ (fragResp.status \in {200, 302} /\ fragResp.namesAtLocate # {}) =>
           Located(DateParse(fragResp.query), Boundaries(fragResp.namesAtLocate),
                   fragResp.fragment, fragResp.index)

\* C6 witness: a query time strictly between two boundaries was redirected
\* to the lower one
C6_Witness ==
    /\ fragResp.status = 302
    /\ fragResp.fragment # InvalidDate
    /\ fragResp.fragment < DateParse(fragResp.query)
    /\ \E b \in Boundaries(fragResp.namesAtLocate) : DateParse(fragResp.query) < b

\* C7: a request for the boundary time a redirect named is never answered
\* with a further redirect (nor fails): it is served.
C7_CanonicalIsServed ==
    /\ fragResp.status \in {302, 500} => fragResp.via # "canonical"
    /\ fragResp.status = 302 /\ fragResp.fragment # InvalidDate =>
           LET again == DateBinarySearch(DateParse(fragResp.location),
                                         FragmentTimes(GetAllFragments(disk)))
           IN ~NotCanonical(DateParse(fragResp.location), again[1])

\* C7 witness: the last response redirected to a boundary time and the
\* request for that time is being served
C7_Witness ==
    /\ fragResp.status = 302
    /\ fragResp.fragment # InvalidDate
    /\ fragReq.pending
    /\ fragReq.query = fragResp.location

\* C8 as claimed: a GET /latest without If-None-Match that follows a 200 with
\* no ingestion since that call began is a 200 with the same ETag and body.
C8_RepeatedReadStable ==
    (/\ prevLatestResp.status = 200
     /\ latestResp.ifNoneMatch = NoEtag
     /\ latestResp.pushesAtEnd = prevLatestResp.pushesAtStart) =>
        /\ latestResp.status = 200
        /\ latestResp.etag = prevLatestResp.etag
        /\ latestResp.body = prevLatestResp.body

\* what the metadata for index has to link to, given the files that exist
PreviousOk(links, index, names) ==
    IF index = 0 THEN links = {}
    ELSE /\ Cardinality(links) = 1
         /\ \A l \in links :
               /\ l.path = "/fragments"
               /\ \E f \in names :
                     /\ l.time = Stem(f)
                     /\ Cardinality({g \in names : LexLess(Stem(g), Stem(f))}) = index - 1

\* C9: the metadata of index 0 has no previous link; the metadata of an index
\* i > 0 has exactly one, to the fragment at position i-1 of the ascending
\* listing; for the latest view (index = fragment count) that is the last one.
C9_Pagination ==
    /\ fragResp.status = 200 =>
           PreviousOk(fragResp.body.metadata.previous, fragResp.index,
                      fragResp.namesAtMetadata)
    /\ \A index \in 0..GetFragmentsCount(disk) :
           PreviousOk(CreateMetadata("/fragments/latest", index, disk).previous,
                      index, Exists(disk))

\* C9 witness: the second fragment was served with a link to the first
C9_Witness ==
    /\ fragResp.status = 200
    /\ fragResp.index = 1
    /\ fragResp.body.metadata.previous # {}

Rejected ==
    {id \in faults.malformed : \A i \in 1..Len(inits) : inits[i].id # id}

StoredIds == {stored[k].id : k \in 1..Len(stored)}
WindowIds == {latest[i].id : i \in 1..Len(latest)}
IngestedIds == {ingested[i].id : i \in 1..Len(ingested)}

\* a malformed record leaves no trace: it is in neither the window nor the
\* writer, and window and writer hold exactly the well-formed records that
\* init has pushed
C11_NoTrace ==
    /\ faults.malformed \cap (WindowIds \cup StoredIds \cup IngestedIds) = {}
    /\ WindowIds \cup StoredIds = IngestedIds
    /\ Len(latest) + Len(stored) = Len(ingested)
    /\ Len(latestTrig) = Len(latest)

\* the step in which init rejects
C11_RejectStep == \E i \in 1..Len(inits) : InitRejects(i)

\* C11: when the extraction of generatedAtTime or the formatting of a record
\* fails, the record is not added to the window, nothing is evicted or
\* stored, and window, cached serialization, byte counter, open fragment and
\* disk are what they were; the other records are ingested as usual.
C11_MalformedRejected ==
    /\ []C11_NoTrace
    /\ [][C11_RejectStep =>
             UNCHANGED <<latest, latestTrig, byteCounter, lastFragment,
                         appends, disk, stored, ingested>>]_vars

\* C11 witness: a malformed record was rejected and a record submitted after
\* it is in the window
C11_Witness ==
    \E bad \in Rejected : \E id \in WindowIds : bad < id

\* ------------------------------------------------------------------ C12
\* the size of a file
RECURSIVE Bytes(_)
Bytes(content) ==
    IF content = <<>> THEN 0
    ELSE ByteLength(Head(content)) + Bytes(Tail(content))

\* the step in which an append fails
C12_FailStep == \E i \in 1..Len(appends) : AppendFails(i)

\* C12: a failed append does not add the payload's length to the byte
\* counter and leaves the open fragment and the disk as they were, so the
\* counter is as far from the size of the open fragment after the failure as
\* it was before.
C12_FailedAppend ==
    [][C12_FailStep =>
          /\ byteCounter' = byteCounter
          /\ lastFragment' = lastFragment
          /\ disk' = disk
          /\ byteCounter' - Bytes(disk'[lastFragment'])
                = byteCounter - Bytes(disk[lastFragment])]_vars

\* C12 witness: the append that was to open a fragment has failed; the
\* counter is 0 and the fragment named by lastFragment has no bytes
C12_Witness ==
    /\ appends = <<>>
    /\ Len(stored) > 0
    /\ stored[Len(stored)].id \in faults.append
    /\ stored[Len(stored)].rotated
    /\ lastFragment = stored[Len(stored)].file
    /\ disk[lastFragment] = <<>>
    /\ byteCounter = 0

\* ------------------------------------------------------------------ C13
\* the cached serialization is the one of the window's entries, in order
Serialized ==
    /\ Len(latestTrig) = Len(latest)
    /\ \A i \in 1..Len(latest) : latestTrig[i] = latest[i].triplesTrig

\* C13 as claimed: when the push of a record to the websocket clients has
\* failed, the ingestion of the record is completed all the same: the record
\* is in the window or with the writer, the overflow eviction has run (the
\* window holds at most latestWindowsize entries) and the cached
\* serialization has been rebuilt from the window.
C13_PushIsolation ==
    faults.push # {} =>
        /\ faults.push \subseteq WindowIds \cup StoredIds
        /\ Len(latest) <= latestWindowsize
        /\ Serialized

\* ------------------------------------------------------------------ C14
\* the call of onData that submitted a record, when every call passes an
\* array of two
Batch(id) == (id + 1) \div 2

\* C14 as claimed: the records of one array are pushed into the window, and
\* handed to storeData when evicted, in the order of the array.
C14_BatchOrder ==
    /\ \A i, j \in 1..Len(ingested) :
           (i < j /\ Batch(ingested[i].id) = Batch(ingested[j].id))
               => ingested[i].id < ingested[j].id
    /\ \A i, j \in 1..Len(stored) :
           (i < j /\ Batch(stored[i].id) = Batch(stored[j].id))
               => stored[i].id < stored[j].id

\* ------------------------------------------------------------------ C15
\* no two calls of storeData opened a fragment of the same name: the content
\* of the open fragment is what was appended to it since it was opened
OpenedOnce ==
    \A i, j \in 1..Len(stored) :
        (i < j /\ stored[i].rotated /\ stored[j].rotated)
            => stored[i].file # stored[j].file

\* C15 as claimed: whenever no append is in flight, the byte counter is the
\* number of bytes appended to the open fragment since it was opened.
C15_ByteCounterConsistent ==
    (appends = <<>> /\ Len(stored) > 0 /\ OpenedOnce)
        => byteCounter = Bytes(disk[lastFragment])

\* ------------------------------------------------------------------ C16
\* the fragments that are not the last one of the sorted listing
Superseded(d) ==
    {f \in Exists(d) : f # GetAllFragments(d)[Len(GetAllFragments(d))]}

\* C16 as claimed: once a fragment is no longer the last of the sorted
\* listing, no store and no pending append changes its content.
C16_SupersededImmutable ==
    [][\A f \in Superseded(disk) : disk'[f] = disk[f]]_vars

C18_LiveCacheFresh ==
    /\ latestResp.status = 200 =>
           latestResp.body.content = LatestTrig(latestResp.windowAtEnd)
    /\ (/\ latestResp.status = 304
        /\ prevLatestResp.status = 200
        /\ latestResp.ifNoneMatch = prevLatestResp.etag) =>
           Ids(latestResp.windowAtEnd) = Ids(prevLatestResp.windowAtEnd)

\* ------------------------------------------------------------------ C19
\* C19 as claimed: a client of GET /fragments that follows redirects gets a
\* 200 after at most two of them, whatever time it asked for and whatever is
\* stored, also when nothing is stored yet: no request fails, the request
\* that follows the redirect to now is answered with 200 or with a redirect
\* to a fragment, and the request that follows a redirect to a fragment is
\* answered with 200.
C19_RedirectChainEnds ==
    /\ fragResp.status # 500
    /\ (fragResp.status = 302 /\ fragResp.via = "now") =>
           fragResp.fragment # InvalidDate
    /\ fragResp.status = 302 => fragResp.via # "canonical"

\* ------------------------------------------------------------------ C20
\* how often a payload is found in the files
OnDisk(d) ==
    Cardinality({p \in FileNames \X (1..MaxIngest + 1) :
                    p[2] <= Len(disk[p[1]]) /\ disk[p[1]][p[2]] = d})

\* how often a payload was handed to storeData
HandedOver(d) == Cardinality({k \in 1..Len(stored) : stored[k].data = d})

\* C20: when every submitted record has been ingested and no append is
\* pending, each record is in exactly one place: either in the window or
\* handed to storeData, never both and never neither, no record twice in
\* either, and every payload handed to storeData is in the files exactly as
\* often as it was handed over.
C20_RecordConservation ==
    (inits = <<>> /\ appends = <<>>) =>
        /\ IngestedIds = 1..submitted
        /\ \A id \in IngestedIds : (id \in WindowIds) # (id \in StoredIds)
        /\ Cardinality(WindowIds) = Len(latest)
        /\ Cardinality(StoredIds) = Len(stored)
        /\ \A d \in Payloads : OnDisk(Data(d)) = HandedOver(Data(d))

\* C20 witness: all is settled with one record in the window and one in a
\* file
C20_Witness ==
    /\ inits = <<>> /\ appends = <<>>
    /\ submitted = MaxIngest
    /\ Len(latest) > 0
    /\ \E f \in FileNames : disk[f] # <<>>

====
